---- MODULE Spec2Model ----
(***************************************************************************)
(* Guitar / amplifier / acoustic feedback simulation of                    *)
(* src/STFT_Spectrogram.py.                                                *)
(*                                                                         *)
(* Numbers.  The program computes in float64.  Here a real value v is the  *)
(* integer v * SCALE (fixed point, four decimals), and every product or    *)
(* quotient is rounded to the nearest unit, as a float operation rounds to *)
(* the nearest representable value.  Distances are carried in centimetres  *)
(* (END_DISTANCE = 0.05 m is 5).                                           *)
(***************************************************************************)
EXTENDS Integers, Sequences, FiniteSets, TLC

VARIABLES
    g,      \* the guitar object: M, RM, ybuf, iy, xbuf, bfb, bfa, bfs
    f,      \* the feedback object: L, xbuf, ix
    heap,   \* the arrays amplify works on (an array is named by its index)
    pc,     \* position of the driving script
    n,      \* the loop counter of cell In[23]
    x,      \* the one-sample input list x of cell In[23]
    y,      \* the output array y of cell In[23], the samples recorded so far
    cfg,    \* the parameters of the run
    hist    \* history of the calls made so far (not program state)

vars == <<g, f, heap, pc, n, x, y, cfg, hist>>

----------------------------------------------------------------------------
(* Bounds of the model *)

\* samples fed to a guitar driven directly
MaxSamples == 7
\* longest array handed to one guitar.play call
MaxBatch == 2

----------------------------------------------------------------------------
(* Fixed-point arithmetic *)

SCALE == 10 * 1000

Abs(v) == IF v < 0 THEN -v ELSE v

Sign(v) == IF v < 0 THEN -1 ELSE IF v > 0 THEN 1 ELSE 0

\* v * num / den rounded to the nearest unit (den > 0, num >= 0), computed
\* without forming v * num
FxMul(v, num, den) ==
    LET q == Abs(v) \div den
        r == Abs(v) % den
    IN  Sign(v) * (q * num + (r * num + den \div 2) \div den)

\* the global sampling frequency fs
Fs == 24000

----------------------------------------------------------------------------
(* 1 - the guitar *)

\* np.round(fs / pitch) as an integer: round half to even
Period(pitch, fs) ==
    LET q == fs \div pitch
        r == fs % pitch
    IN  IF 2 * r < pitch THEN q
        ELSE IF 2 * r > pitch THEN q + 1
        ELSE IF q % 2 = 0 THEN q ELSE q + 1

\* self.R = 0.9999, as a fraction RNum / RDen
RNum == 9999

RDen == 10 * 1000

MulR(v) == FxMul(v, RNum, RDen)

\* self.R ** self.M, in units of 1 / SCALE
RECURSIVE PowR(_)
PowR(m) == IF m = 0 THEN SCALE ELSE MulR(PowR(m - 1))

\* min(0.5, 5.0 * pitch / fs) as a fraction of 10: 5 stands for 0.5
Cutoff(pitch, fs) ==
    IF 10 * pitch >= fs THEN 5 ELSE (50 * pitch) \div fs

\* signal.butter(6, wn)[0] times the gain 1000, numerators over BDen, for
\* the cutoff 0.5 (every pitch of at least fs / 10):
\* 1000 * b = 29.588, 177.529, 443.823, 591.764, 443.823, 177.529, 29.588
ButterB(wn) ==
    CASE wn = 5 -> <<2959, 17753, 44382, 59176, 44382, 17753, 2959>>

BDen == 10 * 10

\* signal.butter(6, wn)[1] without its leading 1, numerators over SCALE, for
\* the cutoff 0.5: a = 1, 0, 0.77770, 0, 0.11420, 0, 0.00175
ButterA(wn) ==
    CASE wn = 5 -> <<0, 7777, 0, 1142, 0, 18>>

\* the order of the Butterworth filter
Order == 6

\* guitar.__init__
GuitarInit(pitch, fs) ==
    LET m == Period(pitch, fs)
    IN  [M    |-> m,
         RM   |-> PowR(m),
         ybuf |-> [i \in 1..m |-> 0],
         iy   |-> 0,
         xbuf |-> 0,
         bfb  |-> ButterB(Cutoff(pitch, fs)),
         bfa  |-> ButterA(Cutoff(pitch, fs)),
         bfs  |-> [i \in 1..Order |-> 0]]

\* the comb filter reads the slot iy of the circular buffer, the one it is
\* about to overwrite, an index further on
CombTSkewed(gs, xn) ==
    xn - MulR(gs.xbuf) + FxMul(gs.ybuf[((gs.iy + 1) % gs.M) + 1], gs.RM, SCALE)

\* t = x[n] - self.R * self.xbuf + self.RM * self.ybuf[self.iy]
CombT(gs, xn) ==
    xn - MulR(gs.xbuf) + FxMul(gs.ybuf[gs.iy + 1], gs.RM, SCALE)

\* signal.lfilter(b, a, [t], zi): one step of the transposed direct form II
LfilterY(b, zi, t) == FxMul(t, b[1], BDen) + zi[1]

\* the filter state after that step (order 6)
LfilterZ(b, a, zi, t) ==
    LET yo == LfilterY(b, zi, t)
    IN  <<FxMul(t, b[2], BDen) + zi[2] - FxMul(yo, a[1], SCALE),
          FxMul(t, b[3], BDen) + zi[3] - FxMul(yo, a[2], SCALE),
          FxMul(t, b[4], BDen) + zi[4] - FxMul(yo, a[3], SCALE),
          FxMul(t, b[5], BDen) + zi[5] - FxMul(yo, a[4], SCALE),
          FxMul(t, b[6], BDen) + zi[6] - FxMul(yo, a[5], SCALE),
          FxMul(t, b[7], BDen) - FxMul(yo, a[6], SCALE)>>

\* one pass of the body of the for loop of guitar.play
PlaySample(gs, xn) ==
    LET t == CombT(gs, xn)
    IN  [g |-> [gs EXCEPT !.ybuf[gs.iy + 1] = t,
                          !.iy = (gs.iy + 1) % gs.M,
                          !.xbuf = xn,
                          !.bfs = LfilterZ(gs.bfb, gs.bfa, gs.bfs, t)],
         t |-> t,
         y |-> LfilterY(gs.bfb, gs.bfs, t)]

\* guitar.play(x): the object after the call, the comb outputs t and the
\* returned array y
RECURSIVE PlayFrom(_, _, _, _, _)
PlayFrom(gs, xarr, i, ts, ys) ==
    IF i > Len(xarr) THEN [g |-> gs, t |-> ts, y |-> ys]
    ELSE LET s == PlaySample(gs, xarr[i])
         IN  PlayFrom(s.g, xarr, i + 1, Append(ts, s.t), Append(ys, s.y))

Play(gs, xarr) == PlayFrom(gs, xarr, 1, <<>>, <<>>)

----------------------------------------------------------------------------
(* A guitar driven directly with arrays of samples *)

\* pitches whose period is 1, 2 and 3 samples
GuitarPitches == {24000, 12000, 8000}

\* sample values: silence, the unit pluck, a smaller negative sample
GuitarInputs == {0, SCALE, -(SCALE \div 4)}

Arrays(S, k) == UNION {[1..m -> S] : m \in 1..k}

InitGuitar ==
    /\ \E pitch \in GuitarPitches :
          /\ g = GuitarInit(pitch, Fs)
          /\ cfg = [pitch |-> pitch]
    /\ hist = [xs |-> <<>>, ts |-> <<>>, ys |-> <<>>,
               batched |-> FALSE, single |-> FALSE]
    /\ f = <<>> /\ heap = <<>> /\ pc = "guitar"
    /\ n = 0 /\ x = <<>> /\ y = <<>>

\* y = g.play(xarr)
GuitarPlay ==
    /\ pc = "guitar"
    /\ \E xarr \in Arrays(GuitarInputs, MaxBatch) :
          /\ Len(hist.xs) + Len(xarr) <= MaxSamples
          /\ LET r == Play(g, xarr)
             IN  /\ g' = r.g
                 /\ hist' = [xs      |-> hist.xs \o xarr,
                             ts      |-> hist.ts \o r.t,
                             ys      |-> hist.ys \o r.y,
                             batched |-> hist.batched \/ Len(xarr) > 1,
                             single  |-> hist.single \/ Len(xarr) = 1]
    /\ UNCHANGED <<f, heap, pc, n, x, y, cfg>>

NextGuitar == GuitarPlay

SpecGuitar == InitGuitar /\ [][NextGuitar]_vars

----------------------------------------------------------------------------
(* The comb stage against its recurrence *)

\* x[k] and t[k] of the full history, 0-based, 0 at negative indices
XAt(k) == IF k < 0 THEN 0 ELSE hist.xs[k + 1]

\* the recurrence t[k] = RM * t[k - M] + x[k] - R * x[k - 1] run over the
\* whole input history
RECURSIVE RefT(_)
RefT(k) ==
    IF k < 0 THEN 0
    ELSE FxMul(RefT(k - g.M), g.RM, SCALE) + XAt(k) - MulR(XAt(k - 1))

\* C2: at every sample the comb stage of guitar.play, with its circular
\* buffer of M outputs and its one stored input, has produced the value of
\* the recurrence t[k] = RM*t[k-M] + x[k] - R*x[k-1] over the full history,
\* however the samples were split into play calls.
CombMatchesRecurrence ==
    pc = "guitar" =>
        /\ Len(hist.ts) = Len(hist.xs)
        /\ \A k \in 0..(Len(hist.ts) - 1) : hist.ts[k + 1] = RefT(k)

\* a run of period 3 in which the buffer has wrapped twice, fed partly in
\* one-sample calls and partly in longer arrays
CombWitness ==
    /\ pc = "guitar"
    /\ g.M = 3
    /\ Len(hist.xs) = MaxSamples
    /\ hist.batched /\ hist.single
    /\ hist.xs[1] # 0 /\ hist.xs[2] # 0 /\ hist.ts[MaxSamples] # 0

----------------------------------------------------------------------------
(* The impulse response of the comb stage *)

\* the input so far is a unit impulse at sample 0 followed by zeros
ImpulseFed ==
    /\ pc = "guitar"
    /\ Len(hist.xs) >= 1
    /\ hist.xs[1] = SCALE
    /\ \A k \in 2..Len(hist.xs) : hist.xs[k] = 0

\* the value at sample (j+1)*M is RM times the value at sample j*M
PeriodRatio ==
    \A j \in 0..Len(hist.ts) :
        (j + 1) * g.M < Len(hist.ts) =>
            hist.ts[(j + 1) * g.M + 1] = FxMul(hist.ts[j * g.M + 1], g.RM, SCALE)

\* C9 as stated: fed a unit impulse, the comb stage is nonzero only at
\* multiples of the period M = round(Fs/P) (218 for P = 110, Fs = 24000),
\* and the value at (k+1)*M is RM times the value at k*M.
CombNonzeroOnlyAtMultiples ==
    ImpulseFed =>
        /\ Period(110, Fs) = 218
        /\ g.M = Period(cfg.pitch, Fs)
        /\ \A k \in 0..(Len(hist.ts) - 1) :
              hist.ts[k + 1] # 0 => k % g.M = 0
        /\ PeriodRatio

\* C9 amended: for a period M = round(Fs/P) >= 2 (218 for P = 110,
\* Fs = 24000) the comb stage fed a unit impulse is nonzero only at the
\* multiples of M and at the sample right after each of them, and the value
\* at (k+1)*M is RM times the value at k*M.
CombNonzeroAtMultiplesAndNext ==
    (ImpulseFed /\ g.M >= 2) =>
        /\ Period(110, Fs) = 218
        /\ g.M = Period(cfg.pitch, Fs)
        /\ \A k \in 0..(Len(hist.ts) - 1) :
              hist.ts[k + 1] # 0 => k % g.M \in {0, 1}
        /\ PeriodRatio

\* the impulse response of period 3 over two full periods: samples 0, 1,
\* 3, 4 and 6 sound, samples 2 and 5 are silent
ImpulseWitness ==
    /\ ImpulseFed
    /\ g.M = 3
    /\ Len(hist.ts) = 7
    /\ hist.ts[1] # 0 /\ hist.ts[2] # 0 /\ hist.ts[3] = 0
    /\ hist.ts[4] # 0 /\ hist.ts[5] # 0 /\ hist.ts[6] = 0
    /\ hist.ts[7] # 0

----------------------------------------------------------------------------
(* 2 - the amplifier *)

\* TH = 0.9
TH == 9 * (SCALE \div 10)

\* y = x binds the same array instead of a copy of it
NpAlias(h, ref) == [heap |-> h, ref |-> ref]

\* np.copy(x): a new array with the elements of the array ref names
NpCopy(h, ref) == [heap |-> Append(h, h[ref]), ref |-> Len(h) + 1]

\* y[y > th] = th
SetAbove(arr, th) == [i \in DOMAIN arr |-> IF arr[i] > th THEN th ELSE arr[i]]

\* the negative threshold is not applied
SetBelowKept(arr, lo) == arr

\* y[y < lo] = lo
SetBelow(arr, lo) == [i \in DOMAIN arr |-> IF arr[i] < lo THEN lo ELSE arr[i]]

\* amplify(x): the arrays after the call and the array returned
Amplify(h, xref) ==
    LET c  == NpCopy(h, xref)
        h1 == [c.heap EXCEPT ![c.ref] = SetAbove(@, TH)]
        h2 == [h1 EXCEPT ![c.ref] = SetBelow(@, -TH)]
    IN  [heap |-> h2, ref |-> c.ref]

----------------------------------------------------------------------------
(* The amplifier applied to an array *)

\* longest array handed to amplify
AmpMaxLen == 2

\* sample values on both sides of, next to and at the two thresholds
AmpInputs == {-2 * SCALE, -TH - 1, -TH, 0, TH, TH + 1, 2 * SCALE}

InitAmp ==
    /\ \E xarr \in Arrays(AmpInputs, AmpMaxLen) \cup {<<>>} :
          /\ heap = <<xarr>>
          /\ hist = [arg |-> xarr]
    /\ x = 1 /\ y = 0 /\ pc = "amp_call"
    /\ g = <<>> /\ f = <<>> /\ n = 0 /\ cfg = <<>>

\* y = amplify(x)
AmplifyCall ==
    /\ pc = "amp_call"
    /\ LET r == Amplify(heap, x)
       IN  heap' = r.heap /\ y' = r.ref
    /\ pc' = "amp_done"
    /\ UNCHANGED <<g, f, n, x, cfg, hist>>

NextAmp == AmplifyCall

SpecAmp == InitAmp /\ [][NextAmp]_vars

Min(a, b) == IF a < b THEN a ELSE b

Max(a, b) == IF a > b THEN a ELSE b

\* C6: the result of amplify equals max(-TH, min(TH, x)) elementwise with
\* TH = 0.9: it lies in [-TH, TH], equals x wherever |x| <= TH, is monotonic
\* non-decreasing in x, and the array passed in is left as it was.
ClipContract ==
    pc = "amp_done" =>
        LET in  == hist.arg
            out == heap[y]
        IN  /\ TH * 10 = 9 * SCALE
            /\ DOMAIN out = DOMAIN in
            /\ \A i \in DOMAIN in :
                  /\ out[i] = Max(-TH, Min(TH, in[i]))
                  /\ -TH <= out[i] /\ out[i] <= TH
                  /\ Abs(in[i]) <= TH => out[i] = in[i]
            /\ \A i, j \in DOMAIN in : in[i] <= in[j] => out[i] <= out[j]
            /\ heap[x] = in

\* amplify has returned for an array with one sample above the threshold and
\* one below its negative, both clipped in the result
ClipWitness ==
    /\ pc = "amp_done"
    /\ Len(hist.arg) = 2
    /\ hist.arg[1] > TH /\ hist.arg[2] < -TH
    /\ heap[y] = <<TH, -TH>>

----------------------------------------------------------------------------
(* 3 - the acoustic feedback channel *)

\* SPEED_OF_SOUND = 343.0 m/s
SpeedOfSound == 343

\* the smallest integer not below a / b (b > 0), as np.ceil of the quotient
CeilDiv(a, b) == -((-a) \div b)

\* the delay in samples is rounded down
DelaySamplesFloor(dcm, fs) == (dcm * (fs \div 100)) \div SpeedOfSound

\* int(np.ceil(distance / SPEED_OF_SOUND * fs)) for a distance of dcm
\* centimetres (fs is a multiple of 100)
DelaySamples(dcm, fs) == CeilDiv(dcm * (fs \div 100), SpeedOfSound)

\* feedback.__init__
FeedbackInit(maxcm, fs) ==
    LET len == DelaySamples(maxcm, fs)
    IN  [L |-> len, xbuf |-> [i \in 1..len |-> 0], ix |-> 0]

\* the slot read is one too recent
ReadSlotOffByOne(fb, d) == (fb.L + fb.ix - d + 1) % fb.L

\* (self.L + self.ix - d) % self.L
ReadSlot(fb, d) == (fb.L + fb.ix - d) % fb.L

\* x / float(distance) for a float64 x read from the buffer: dividing by
\* zero gives inf or nan (with a warning), it does not raise
Divide(v, dcm) ==
    IF dcm = 0
    THEN IF v = 0 THEN [cls |-> "nan", val |-> 0]
                  ELSE [cls |-> "inf", val |-> Sign(v)]
    ELSE [cls |-> "num", val |-> Sign(dcm) * FxMul(v, 100, Abs(dcm))]

\* feedback.get(x, distance): the object after the call, the value returned,
\* and for the record the delay, the slots written and read, and how the
\* call ended (the method has no raise statement and no index it computes
\* leaves the buffer)
Get(fb, xv, dcm) ==
    LET d    == DelaySamples(dcm, Fs)
        buf  == [fb.xbuf EXCEPT ![fb.ix + 1] = xv]
        slot == ReadSlot(fb, d)
    IN  [f       |-> [fb EXCEPT !.xbuf = buf, !.ix = (fb.ix + 1) % fb.L],
         ret     |-> Divide(buf[slot + 1], dcm),
         d       |-> d,
         written |-> fb.ix,
         read    |-> slot,
         outcome |-> "returned"]

----------------------------------------------------------------------------
(* A channel pushed with an arbitrary distance on every call *)

\* calls made to one channel
MaxCalls == 5

\* maximum distances in cm: buffers of 3 and 4 slots, and 1 m
ChanMaxDistances == {3, 5, 100}

\* distances in cm: negative, zero, short, 1 m, 1000 m
ChanDistances == {-2, 0, 1, 2, 3, 5, 100, 100000}

\* samples pushed
ChanInputs == {0, TH}

InitChan ==
    /\ \E maxcm \in ChanMaxDistances :
          /\ f = FeedbackInit(maxcm, Fs)
          /\ cfg = [maxcm |-> maxcm, L |-> DelaySamples(maxcm, Fs)]
    /\ hist = [calls |-> 0, last |-> <<>>]
    /\ pc = "chan"
    /\ g = <<>> /\ heap = <<>> /\ n = 0 /\ x = <<>> /\ y = <<>>

\* f.get(xv, dcm)
ChanGet ==
    /\ pc = "chan"
    /\ hist.calls < MaxCalls
    /\ \E xv \in ChanInputs, dcm \in ChanDistances :
          LET r == Get(f, xv, dcm)
          IN  /\ f' = r.f
              /\ hist' = [calls |-> hist.calls + 1,
                          last  |-> [x |-> xv, dcm |-> dcm, d |-> r.d,
                                     ret |-> r.ret, written |-> r.written,
                                     read |-> r.read, outcome |-> r.outcome]]
    /\ UNCHANGED <<g, heap, pc, n, x, y, cfg>>

NextChan == ChanGet

SpecChan == InitChan /\ [][NextChan]_vars

Called == pc = "chan" /\ hist.calls > 0

\* C4: a push whose delay in samples ceil(distance/speedOfSound*sampleRate)
\* is not below the buffer length L fails with DistanceOutOfRange instead of
\* returning a sample; a channel of maximum distance 1 m rejects 1000 m.
OutOfRangeRejected ==
    (Called /\ hist.last.d >= f.L) => hist.last.outcome = "DistanceOutOfRange"

\* C5: a push with distance <= 0 fails with InvalidDistance at that call
\* rather than returning a value.
InvalidDistanceRejected ==
    (Called /\ hist.last.dcm <= 0) => hist.last.outcome = "InvalidDistance"

\* C10: for every push with a distance in (0, D] the delay d satisfies
\* d + 1 <= L, so the slot read is never the slot written in the same call;
\* the write index stays in [0, L) and the buffer length never changes.
DelayFitsBuffer ==
    pc = "chan" =>
        /\ (hist.calls > 0 /\ hist.last.dcm > 0 /\ hist.last.dcm <= cfg.maxcm) =>
              /\ hist.last.d + 1 <= f.L
              /\ hist.last.read # hist.last.written
        /\ f.ix \in 0..(f.L - 1)
        /\ f.L = cfg.L /\ Len(f.xbuf) = cfg.L

----------------------------------------------------------------------------
(* A channel pushed with one fixed distance on every call *)

\* calls made to a channel kept at one distance
MaxFixedCalls == 7

\* maximum distances in cm: buffers of 4 and 6 slots
FixedMaxDistances == {5, 8}

\* the distance in cm: delays of 1, 2, 3, 4 (END_DISTANCE) and 6 samples
FixedDistances == {1, 2, 3, 5, 8}

\* samples pushed
FixedInputs == {0, TH, -(SCALE \div 2)}

InitFixed ==
    /\ \E maxcm \in FixedMaxDistances, dcm \in FixedDistances :
          /\ f = FeedbackInit(maxcm, Fs)
          /\ cfg = [maxcm |-> maxcm, dcm |-> dcm]
    /\ hist = [xs |-> <<>>, rets |-> <<>>]
    /\ pc = "fixed"
    /\ g = <<>> /\ heap = <<>> /\ n = 0 /\ x = <<>> /\ y = <<>>

\* f.get(xv, cfg.dcm)
FixedGet ==
    /\ pc = "fixed"
    /\ Len(hist.xs) < MaxFixedCalls
    /\ \E xv \in FixedInputs :
          LET r == Get(f, xv, cfg.dcm)
          IN  /\ f' = r.f
              /\ hist' = [xs |-> Append(hist.xs, xv), rets |-> Append(hist.rets, r.ret)]
    /\ UNCHANGED <<g, heap, pc, n, x, y, cfg>>

NextFixed == FixedGet

SpecFixed == InitFixed /\ [][NextFixed]_vars

\* the pushes so far are zero except for the one made at call k
OnlyPushAt(k) ==
    /\ k \in 1..Len(hist.xs)
    /\ hist.xs[k] # 0
    /\ \A m \in 1..Len(hist.xs) : m # k => hist.xs[m] = 0

\* np.round of a / b (b > 0, a >= 0), no quotient here falls on a half
RoundDiv(a, b) == (2 * a + b) \div (2 * b)

\* the return values so far are those of one sample v delayed by lag calls
\* and divided by the distance, and zero at every other call
EchoAt(k, lag) ==
    \A m \in 1..Len(hist.rets) :
        /\ hist.rets[m].cls = "num"
        /\ hist.rets[m].val =
              (IF m = k + lag THEN FxMul(hist.xs[k], 100, cfg.dcm) ELSE 0)

----------------------------------------------------------------------------
(* 4 - the feedback loop of cell In[23] *)

\* iterations of the loop (N)
LoopN == 7

\* pitches of the string: periods of 2 and 3 samples
LoopPitches == {12000, 8000}

\* maximum distance of the channel in cm: a buffer of 6 slots
LoopMaxDistances == {8}

\* distances in cm a schedule may give: delays of 1, 4 and 6 samples
LoopDistances == {1, 5, 8}

\* the coupling loss in units of 1 / SCALE: 0 and COUPLING_LOSS = 0.0001
LoopCouplings == {0, 1}

\* the initial plucking: 1, and a hundredth of it
LoopExcitations == {SCALE, SCALE \div 100}

\* the product is not scaled by the coupling loss
CoupleUnscaled(cl, v) == v

\* COUPLING_LOSS * f.get(...)
Couple(cl, v) == FxMul(v, cl, SCALE)

\* the channel is handed the output of the guitar, not the amplifier's
GetArgUnclipped == heap[1][1]

\* the first argument of f.get: y[n]
GetArg == y[n + 1]

InitLoop ==
    /\ \E pitch \in LoopPitches, maxcm \in LoopMaxDistances,
          cl \in LoopCouplings, exc \in LoopExcitations :
          /\ g = GuitarInit(pitch, Fs)
          /\ f = FeedbackInit(maxcm, Fs)
          /\ x = <<exc>>
          /\ cfg = [pitch |-> pitch, maxcm |-> maxcm, coupling |-> cl,
                    exc |-> exc, N |-> LoopN]
    /\ y = <<>> /\ n = 0 /\ heap = <<>>
    /\ pc = "play"
    /\ hist = [consumed |-> <<>>, getArg |-> <<>>, getRet |-> <<>>,
               written |-> <<>>, trace |-> <<>>]

\* g.play(x), line 325
LoopPlay ==
    /\ pc = "play" /\ n < cfg.N
    /\ LET r == Play(g, x)
       IN  /\ g' = r.g
           /\ heap' = <<r.y>>
    /\ hist' = [hist EXCEPT !.consumed = Append(@, x[1]),
                            !.trace = Append(@, <<"play", n>>)]
    /\ pc' = "amplify"
    /\ UNCHANGED <<f, n, x, y, cfg>>

\* amplify(...), line 325
LoopAmplify ==
    /\ pc = "amplify"
    /\ heap' = Amplify(heap, 1).heap
    /\ hist' = [hist EXCEPT !.trace = Append(@, <<"amplify", n>>)]
    /\ pc' = "record"
    /\ UNCHANGED <<g, f, n, x, y, cfg>>

\* y[n] = ..., line 325
LoopRecord ==
    /\ pc = "record"
    /\ y' = Append(y, heap[Len(heap)][1])
    /\ hist' = [hist EXCEPT !.trace = Append(@, <<"record", n>>)]
    /\ pc' = "get"
    /\ UNCHANGED <<g, f, heap, n, x, cfg>>

\* x = [COUPLING_LOSS * f.get(y[n], distance)], line 326, and the next n
LoopGet ==
    /\ pc = "get"
    /\ \E dcm \in LoopDistances :
          LET r == Get(f, GetArg, dcm)
          IN  /\ f' = r.f
              /\ x' = <<Couple(cfg.coupling, r.ret.val)>>
              /\ hist' = [hist EXCEPT !.getArg = Append(@, GetArg),
                                      !.getRet = Append(@, r.ret.val),
                                      !.written = Append(@, r.f.xbuf[r.written + 1]),
                                      !.trace = Append(@, <<"get", n>>)]
    /\ n' = n + 1
    /\ heap' = <<>>
    /\ pc' = IF n + 1 < cfg.N THEN "play" ELSE "done"
    /\ UNCHANGED <<g, y, cfg>>

NextLoop == LoopPlay \/ LoopAmplify \/ LoopRecord \/ LoopGet

SpecLoop == InitLoop /\ [][NextLoop]_vars

InLoop == pc \in {"play", "amplify", "record", "get", "done"}

\* the operations of one iteration, in the order of lines 325 and 326
StepOrder == <<"play", "amplify", "record", "get">>

\* C1: the input the resonator consumes at iteration 0 is the excitation;
\* the input it consumes at iteration k+1 is couplingLoss times the value
\* the channel returned at iteration k, and that call was given the clipped
\* output y[k]; within an iteration the order is resonator, clip, record,
\* push, iteration after iteration, so nothing is read before it is made.
FeedbackOneSampleDelayed ==
    InLoop =>
        /\ Len(hist.consumed) >= 1 => hist.consumed[1] = cfg.exc
        /\ \A k \in 1..Len(hist.getRet) :
              /\ hist.getArg[k] = y[k]
              /\ k + 1 <= Len(hist.consumed) =>
                    hist.consumed[k + 1] = FxMul(hist.getRet[k], cfg.coupling, SCALE)
        /\ \A j \in 1..Len(hist.trace) :
              hist.trace[j] = <<StepOrder[((j - 1) % 4) + 1], (j - 1) \div 4>>
        /\ Len(y) <= Len(hist.consumed)
        /\ Len(hist.getRet) <= Len(y)
        /\ Len(hist.consumed) <= Len(hist.getRet) + 1

\* a finished run with coupling in which the amplifier clipped a sample, the
\* channel returned it nonzero and the resonator consumed it scaled
FeedbackWitness ==
    /\ pc = "done"
    /\ cfg.coupling = 1
    /\ \E k \in 1..(LoopN - 1) :
          /\ hist.getArg[k] = TH
          /\ hist.getRet[k] # 0
          /\ hist.consumed[k + 1] # 0
          /\ hist.consumed[k + 1] # hist.getRet[k]

\* C7: in the full loop, for any schedule of positive distances, every
\* recorded output sample satisfies |y[n]| <= 0.9, and so does every value
\* written into the buffer of the delay channel.
OutputBounded ==
    InLoop =>
        /\ \A k \in 1..Len(y) : Abs(y[k]) <= TH
        /\ \A k \in 1..Len(hist.written) : Abs(hist.written[k]) <= TH
        /\ \A k \in 1..Len(f.xbuf) : Abs(f.xbuf[k]) <= TH

\* a finished run whose output has a sample clipped at each threshold and a
\* nonzero sample strictly inside, all of them written into the channel
BoundedWitness ==
    /\ pc = "done"
    /\ \E i, j, k \in 1..LoopN :
          /\ y[i] = TH /\ y[j] = -TH
          /\ y[k] # 0 /\ Abs(y[k]) < TH
          /\ hist.written[i] = TH /\ hist.written[j] = -TH
          /\ hist.written[k] = y[k]

\* the excitation followed by zeros
PluckThenSilence(len) == [k \in 1..len |-> IF k = 1 THEN cfg.exc ELSE 0]

\* the resonator alone, fed the excitation and then zeros, through the clip
OpenLoopOutput(len) ==
    LET r == Play(GuitarInit(cfg.pitch, Fs), PluckThenSilence(len))
    IN  Amplify(<<r.y>>, 1).heap[2]

\* C8 as stated: with couplingLoss = 0 the output is silent after the first
\* few samples: there is a K below the length of the run such that y[k] = 0
\* for every k >= K.
SilentWithoutCoupling ==
    (pc = "done" /\ cfg.coupling = 0) =>
        \E K \in 0..(cfg.N - 1) : \A k \in K..(cfg.N - 1) : y[k + 1] = 0

\* C8 amended: with couplingLoss = 0 the resonator consumes 0 at every
\* iteration after the first, and the output is the clipped response of the
\* resonator to the excitation alone, whatever the distances.
OpenLoopWithoutCoupling ==
    (InLoop /\ cfg.coupling = 0) =>
        /\ \A k \in 2..Len(hist.consumed) : hist.consumed[k] = 0
        /\ y = OpenLoopOutput(Len(y))

\* a finished run without coupling in which the channel returned a nonzero
\* sample and the last output sample still sounds
OpenLoopWitness ==
    /\ pc = "done"
    /\ cfg.coupling = 0
    /\ \E k \in 1..LoopN : hist.getRet[k] # 0
    /\ y[LoopN] # 0
    /\ Len(hist.consumed) = LoopN

====
